---- MODULE Spec2Model ----
(***************************************************************************)
(* Model of user-interaction-simulation:                                   *)
(*   parsers/events.py            Schema, Events (mixpanel initial parser) *)
(*   navigators/selenium_navigator.py   Controls, UserSimulation           *)
(*                                                                         *)
(* Python values are tagged records, so that None, strings, numbers, lists *)
(* and dicts can be compared with each other.  A Python dict is a function *)
(* from its keys (strings) to values.                                      *)
(***************************************************************************)
EXTENDS Integers, Sequences, FiniteSets, TLC

VARIABLES
    schema,          \* Schema.__dict__: slot name -> provider key or None
    schema_state,    \* "args" before Schema.__init__ ran, "constructed", "raised"
    returned,        \* value returned by the last return_schema() call, or None
    raised,          \* name of the exception that ended the last operation, "none" if none
    events,          \* Events.events: the raw records the parser loop has taken so far
    parsed_events,   \* Events.parsed_events: index -> parsed event
    valid_event,     \* local counter of __mixpanel_inital_parser
    parse_pc,        \* "idle", "loop", "returned", "raised"
    sim_events,      \* UserSimulation.events: index -> event, as far as it has been read
                     \* (the constructor reads the first event, the loop one per pass)
    static_sleep_time,   \* argument of perform_simulation: None or seconds
    execute_function,    \* argument of perform_simulation: "None" or "callable"
    n,               \* loop variable of perform_simulation: index of the last event taken
    last_timestamp,  \* local of perform_simulation
    last_location,   \* local of perform_simulation
    calls,           \* every call made so far on time.sleep, the handler and the driver
    sim_pc           \* "off", "idle", "running", "completed", "raised"

schemaVars == <<schema, schema_state, returned>>
parseVars == <<events, parsed_events, valid_event, parse_pc>>
simVars == <<sim_events, static_sleep_time, execute_function, n, last_timestamp,
             last_location, calls, sim_pc>>

vars == <<schema, schema_state, returned, raised, events, parsed_events, valid_event, parse_pc,
          sim_events, static_sleep_time, execute_function, n, last_timestamp,
          last_location, calls, sim_pc>>

\* the replay is not part of the run
SimOff ==
    /\ sim_events = <<>>
    /\ static_sleep_time = [t |-> "None"]
    /\ execute_function = "None"
    /\ n = 0
    /\ last_timestamp = [t |-> "None"]
    /\ last_location = [t |-> "None"]
    /\ calls = <<>>
    /\ sim_pc = "off"

(***************************************************************************)
(* Python values                                                           *)
(***************************************************************************)
None == [t |-> "None"]
Str(s) == [t |-> "str", s |-> s]
Num(x) == [t |-> "num", n |-> x]
List(l) == [t |-> "list", l |-> l]
Dict(d) == [t |-> "dict", d |-> d]

\* bool(v) as Python computes it
Truthy(v) ==
    CASE v.t = "None" -> FALSE
      [] v.t = "str"  -> v.s # ""
      [] v.t = "num"  -> v.n # 0
      [] v.t = "list" -> Len(v.l) # 0
      [] v.t = "dict" -> DOMAIN v.d # {}

\* d.get(k) for a dict d (a function) and a key k that is a Python value:
\* None is never a key of a JSON object
DictGet(d, k) ==
    IF k.t = "str" /\ k.s \in DOMAIN d THEN d[k.s] ELSE None

\* a + b is defined for two strings; None + x and x + None raise TypeError
CanAdd(a, b) == a.t = "str" /\ b.t = "str"

Add(a, b) == Str(a.s \o b.s)

(***************************************************************************)
(* Schema                                                                  *)
(***************************************************************************)
\* the attributes Schema.__init__ assigns, in assignment order
Slots == <<"reproductive_data_key", "dimension_key", "scroll_top_key",
           "mouse_position_key", "time_key", "page_key", "query_key">>

SlotSet == {Slots[i] : i \in 1..Len(Slots)}

\* the provider keys of the example schema
ProviderKey ==
    [reproductive_data_key |-> "reproductive", dimension_key |-> "dimension",
     scroll_top_key |-> "scrollTop", mouse_position_key |-> "mousePosition",
     time_key |-> "time", page_key |-> "location", query_key |-> "searchArgs"]

\* every way of passing the seven arguments: each the slot's provider key or None
SchemaArgs == {a \in [SlotSet -> {None} \cup {Str(ProviderKey[k]) : k \in SlotSet}] :
                  \A k \in SlotSet : a[k] # None => a[k] = Str(ProviderKey[k])}

\* all((not value for value in self.__dict__.values()))
AllArgumentsNone(sch) == \A k \in SlotSet : ~Truthy(sch[k])

\* {key: value for key, value in self.__dict__.items() if value is not None}
NonNoneItems(sch) == {k \in SlotSet : sch[k] # None}

\* schema.pop('reproductive_data_key') raises KeyError when the key is not there
ReturnSchemaRaises(sch) == "reproductive_data_key" \notin NonNoneItems(sch)

return_schema(sch) ==
    [k \in NonNoneItems(sch) \ {"reproductive_data_key"} |-> sch[k]]

\* Schema.__init__
SchemaInit ==
    /\ schema_state = "args"
    /\ IF AllArgumentsNone(schema)
          THEN schema_state' = "raised" /\ raised' = "ValueError"
          ELSE schema_state' = "constructed" /\ raised' = "none"
    /\ UNCHANGED <<schema, returned, parseVars, simVars>>

\* Schema.return_schema, called on a constructed schema
ReturnSchema ==
    /\ schema_state = "constructed"
    /\ returned = None
    /\ raised = "none"
    /\ IF ReturnSchemaRaises(schema)
          THEN raised' = "KeyError" /\ returned' = returned
          ELSE raised' = "none" /\ returned' = Dict(return_schema(schema))
    /\ UNCHANGED <<schema, schema_state, parseVars, simVars>>

\* C4: for every successfully constructed schema, return_schema() does not fail
\* and returns exactly the present slots other than reproductive_data_key, each
\* mapped to its provider key.
C4_ActiveFieldsTotal ==
    (schema_state = "constructed" /\ (returned # None \/ raised # "none")) =>
        /\ raised = "none"
        /\ returned = Dict([k \in {s \in SlotSet \ {"reproductive_data_key"} : schema[s] # None}
                               |-> schema[k]])

(***************************************************************************)
(* Events: the mixpanel initial parser                                     *)
(***************************************************************************)
MaxRecords == 2

\* key.replace('_key', '')
StripKey(slot) ==
    CASE slot = "reproductive_data_key" -> "reproductive_data"
      [] slot = "dimension_key" -> "dimension"
      [] slot = "scroll_top_key" -> "scroll_top"
      [] slot = "mouse_position_key" -> "mouse_position"
      [] slot = "time_key" -> "time"
      [] slot = "page_key" -> "page"
      [] slot = "query_key" -> "query"

\* schema.get(slot) on the dict return_schema() gave
SchemaGet(sch, slot) == IF slot \in DOMAIN sch THEN sch[slot] ELSE None

\* for key, value in schema.items(): parsed_event[key.replace('_key', '')] = container.get(value)
\* on top of {'name': event['event']}
WithSchemaFields(name, sch, container) ==
    [f \in {"name"} \cup {StripKey(k) : k \in DOMAIN sch} |->
        IF f = "name" THEN name
        ELSE DictGet(container, sch[CHOOSE k \in DOMAIN sch : StripKey(k) = f])]

\* parsed_event['time'] = ...; parsed_event['page'] = ...
WithTimeAndPage(pe, time, page) ==
    [f \in DOMAIN pe \cup {"time", "page"} |->
        IF f = "time" THEN time ELSE IF f = "page" THEN page ELSE pe[f]]

UsesReproductive_Never(reproductive) == FALSE

\* the container the schema fields are read from: the walrus test of line 166
UsesReproductive(reproductive) == Truthy(reproductive)

\* the test that guards the concatenation of the query string
\* nested branch: schema.get('query_key') and properties.get(schema.get('query_key'))
QueryAppendedNested(sch, properties) ==
    Truthy(SchemaGet(sch, "query_key")) /\ Truthy(DictGet(properties, SchemaGet(sch, "query_key")))

\* top-level branch: schema.get('query_key')
QueryAppendedTop(sch, properties) ==
    Truthy(SchemaGet(sch, "query_key"))

\* parsed_event.pop('query')
Pop(pe, f) == [g \in DOMAIN pe \ {f} |-> pe[g]]

\* self.parsed_events[valid_event] = parsed_event
Store(pes, i, pe) == [j \in DOMAIN pes \cup {i} |-> IF j = i THEN pe ELSE pes[j]]

\* One pass of the loop body over `event`, as (exception or "none", parsed_events, valid_event).
\* An exception leaves self.parsed_events as it was when it was raised.
ParseOne(schm, event, pes, ve) ==
    IF ReturnSchemaRaises(schm) THEN
        [raised |-> "KeyError", parsed_events |-> pes, valid_event |-> ve]
    ELSE
    LET sch == return_schema(schm)
        properties == event.properties
        name == event.event
        reproductive == DictGet(properties, schm["reproductive_data_key"])
        nested == UsesReproductive(reproductive)
        container == IF nested THEN reproductive.d ELSE properties
        pe1 == WithTimeAndPage(WithSchemaFields(name, sch, container),
                               DictGet(properties, SchemaGet(sch, "time_key")),
                               DictGet(properties, SchemaGet(sch, "page_key")))
        query == DictGet(properties, SchemaGet(sch, "query_key"))
        appended == IF nested THEN QueryAppendedNested(sch, properties)
                              ELSE QueryAppendedTop(sch, properties)
        pe2 == IF appended THEN [pe1 EXCEPT !["page"] = Add(pe1["page"], query)] ELSE pe1
    IN  IF appended /\ ~CanAdd(pe1["page"], query) THEN
            [raised |-> "TypeError", parsed_events |-> pes, valid_event |-> ve]
        ELSE IF "query" \notin DOMAIN pe2 THEN
            \* the nested branch stores the event before the pop, the other after it
            [raised |-> "KeyError",
             parsed_events |-> IF nested THEN Store(pes, ve + 1, pe2) ELSE pes,
             valid_event |-> ve + 1]
        ELSE
            [raised |-> "none",
             parsed_events |-> Store(pes, ve + 1, Pop(pe2, "query")),
             valid_event |-> ve + 1]

\* raw record values: what the top-level properties hold for a provider key ...
TopValue(key) ==
    CASE key = "dimension" -> List(<<360, 640>>)
      [] key = "scrollTop" -> Num(120)
      [] key = "mousePosition" -> List(<<10, 20>>)
      [] key = "time" -> Num(100)
      [] key = "location" -> Str("https://x/a")
      [] key = "searchArgs" -> Str("?ref=1")

\* ... and what the nested container holds for it (always another value)
NestedValue(key) ==
    CASE key = "dimension" -> List(<<800, 600>>)
      [] key = "scrollTop" -> Num(7)
      [] key = "mousePosition" -> List(<<1, 2>>)
      [] key = "time" -> Num(200)
      [] key = "location" -> Str("https://n/b")
      [] key = "searchArgs" -> Str("?n=2")

DataKeys == {"dimension", "scrollTop", "mousePosition", "time", "location", "searchArgs"}

\* the top-level properties of a record: all keys, page or query or both or
\* all of them missing, or an empty query string
TopProperties ==
    {[k \in K |-> TopValue(k)] :
        K \in {DataKeys, DataKeys \ {"location"}, DataKeys \ {"searchArgs"},
               DataKeys \ {"location", "searchArgs"}, {}}}
    \cup {[k \in DataKeys |-> IF k = "searchArgs" THEN Str("") ELSE TopValue(k)]}

\* the nested container: missing, empty, or holding every key
NestedContainers == {None, Dict(<<>>), Dict([k \in DataKeys |-> NestedValue(k)])}

WithKey(d, key, v) == [k \in DOMAIN d \cup {key} |-> IF k = key THEN v ELSE d[k]]

EventNames == {Str("Page viewed"), Str("Button clicked")}

RawRecords ==
    {[event |-> nm,
      properties |-> IF c = None THEN top ELSE WithKey(top, "reproductive", c)] :
        nm \in EventNames, top \in TopProperties, c \in NestedContainers}

\* one iteration of `for event in self.events`
MixpanelParseRecord ==
    /\ parse_pc = "loop"
    /\ Len(events) < MaxRecords
    /\ \E event \in RawRecords :
        LET r == ParseOne(schema, event, parsed_events, valid_event) IN
        /\ events' = Append(events, event)
        /\ parsed_events' = r.parsed_events
        /\ valid_event' = r.valid_event
        /\ raised' = r.raised
        /\ parse_pc' = IF r.raised = "none" THEN "loop" ELSE "raised"
    /\ UNCHANGED <<schemaVars, simVars>>

\* the loop is exhausted: return self.parsed_events
MixpanelReturn ==
    /\ parse_pc = "loop"
    /\ parse_pc' = "returned"
    /\ UNCHANGED <<schemaVars, raised, events, parsed_events, valid_event, simVars>>

\* Events.parse(schema) with a schema that Schema.__init__ accepted
InitParse ==
    /\ schema \in {a \in SchemaArgs : ~AllArgumentsNone(a)}
    /\ schema_state = "constructed"
    /\ returned = None
    /\ raised = "none"
    /\ events = <<>>
    /\ parsed_events = <<>>
    /\ valid_event = 0
    /\ parse_pc = "loop"
    /\ SimOff

NextParse == MixpanelParseRecord \/ MixpanelReturn

SpecParse == InitParse /\ [][NextParse]_vars

(***************************************************************************)
(* Claims about the parser.  Record i of the input is events[i]; the event *)
(* derived from it, if any, is parsed_events[i].                           *)
(***************************************************************************)
AllSlotsConfigured == \A k \in SlotSet : schema[k] # None

\* properties.get(key) of input record i
Prop(i, key) == DictGet(events[i].properties, Str(key))

\* the nested container of input record i is present and non-empty
HasNested(i) == Truthy(Prop(i, "reproductive"))

\* the nested container's value for key
Nested(i, key) == DictGet(Prop(i, "reproductive").d, Str(key))

\* C1: the records processed so far, N of them, gave exactly the indices 1..N,
\* and the event at index i carries the name of the i-th record.
C1_IndicesOneToN ==
    parse_pc # "idle" =>
        /\ DOMAIN parsed_events = 1..Len(events)
        /\ \A i \in 1..Len(events) : parsed_events[i]["name"] = events[i].event

\* C2 as stated, under a schema with every slot configured: with a non-empty
\* nested container every active field, time and page included, comes from the
\* nested container; otherwise from the top level.
C2_EveryFieldFromNested ==
    AllSlotsConfigured => \A i \in DOMAIN parsed_events :
        LET pe == parsed_events[i]
            From(key) == IF HasNested(i) THEN Nested(i, key) ELSE Prop(i, key)
        IN  /\ schema["dimension_key"] # None => pe["dimension"] = From("dimension")
            /\ schema["scroll_top_key"] # None => pe["scroll_top"] = From("scrollTop")
            /\ schema["mouse_position_key"] # None => pe["mouse_position"] = From("mousePosition")
            /\ schema["time_key"] # None => pe["time"] = From("time")
            /\ schema["page_key"] # None =>
                   \/ pe["page"] = From("location")
                   \/ /\ From("location").t = "str"
                      /\ pe["page"] \in {Add(From("location"), q) :
                                            q \in {Str("?ref=1"), Str("?n=2")}}

\* C2 amended: dimension, scroll_top and mouse_position come from the nested
\* container when it is present and non-empty and from the top-level properties
\* otherwise; time and page (and the query suffix of page) always come from the
\* top-level properties.
C2_NestedForDataTopForTimeAndPage ==
    \A i \in DOMAIN parsed_events :
        LET pe == parsed_events[i]
            From(key) == IF HasNested(i) THEN Nested(i, key) ELSE Prop(i, key)
            q == Prop(i, "searchArgs")
        IN  /\ schema["dimension_key"] # None => pe["dimension"] = From("dimension")
            /\ schema["scroll_top_key"] # None => pe["scroll_top"] = From("scrollTop")
            /\ schema["mouse_position_key"] # None => pe["mouse_position"] = From("mousePosition")
            /\ schema["time_key"] # None => pe["time"] = Prop(i, "time")
            /\ schema["page_key"] # None =>
                   pe["page"] = IF schema["query_key"] # None /\ Truthy(q)
                                   THEN Add(Prop(i, "location"), q)
                                   ELSE Prop(i, "location")

\* C2 witness: an event made from a record whose nested container and top-level
\* properties disagree on every key, under a schema with every slot configured.
C2_Witness ==
    \E i \in DOMAIN parsed_events :
        /\ AllSlotsConfigured
        /\ HasNested(i)
        /\ Prop(i, "dimension") # None /\ Prop(i, "time") # None /\ Prop(i, "location") # None
        /\ parsed_events[i]["dimension"] = Nested(i, "dimension")
        /\ parsed_events[i]["dimension"] # Prop(i, "dimension")
        /\ parsed_events[i]["time"] = Prop(i, "time")
        /\ parsed_events[i]["time"] # Nested(i, "time")

\* C3: with query_key configured and the record's page a string, every processed
\* record gave an event whose page is page + query when the query value is
\* truthy, and the page unchanged when the query value is absent or falsy.
C3_QueryAppendedOrPageUnchanged ==
    AllSlotsConfigured =>
        \A i \in 1..Len(events) :
            LET page == Prop(i, "location")
                q == Prop(i, "searchArgs")
            IN  page.t = "str" =>
                    /\ i \in DOMAIN parsed_events
                    /\ parsed_events[i]["page"] = IF Truthy(q) THEN Add(page, q) ELSE page

\* C5: under a schema return_schema() accepts, whether or not query_key is
\* configured, every processed record whose page and query are strings gave an
\* event with exactly the fields name, time, page and one per configured active
\* slot other than query.
C5_FieldSetWithoutQuery ==
    schema["reproductive_data_key"] # None =>
        \A i \in 1..Len(events) :
            (Prop(i, "location").t = "str" /\ Prop(i, "searchArgs").t = "str") =>
                /\ i \in DOMAIN parsed_events
                /\ DOMAIN parsed_events[i] =
                       {"name", "time", "page"}
                       \cup {StripKey(k) : k \in {s \in SlotSet \ {"reproductive_data_key", "query_key"} :
                                                      schema[s] # None}}

\* C6: under a schema with every slot configured, a record that lacks mapped
\* provider keys raises nothing: it gives an event at the next index whose
\* fields for the missing keys are None.
C6_MissingKeysGiveNone ==
    AllSlotsConfigured =>
        /\ raised = "none"
        /\ \A i \in 1..Len(events) :
               /\ i \in DOMAIN parsed_events
               /\ Prop(i, "location") = None => parsed_events[i]["page"] = None
               /\ (Prop(i, "time") = None /\ ~HasNested(i)) => parsed_events[i]["time"] = None

(***************************************************************************)
(* UserSimulation: the replay of a parsed event stream                     *)
(***************************************************************************)
MaxEvents == 2

\* next_event_in = 3
NegativeDelayFallback == 3

\* the parsed events the replay is given: the fields the parser writes under
\* the example schema
Pages == {None, Str("P1"), Str("P2")}

Timestamps == {Num(100), Num(102)}

\* scroll_top: at the top of the page (falsy) or scrolled
ScrollTops == {Num(0), Num(7)}

\* mouse_position: no click recorded, or its coordinates
MousePositions == {None, List(<<10, 20>>)}

ParsedEvents ==
    {[name |-> Str("Page viewed"), dimension |-> List(<<360, 640>>),
      time |-> tm, page |-> pg, scroll_top |-> st, mouse_position |-> mp] :
        tm \in Timestamps, pg \in Pages, st \in ScrollTops, mp \in MousePositions}

\* static_sleep_time: Union[int, float, None]
StaticSleepTimes == {None, Num(2)}

\* execute_function: None, or a callable (the handler of example.py)
ExecuteFunctions == {"None", "callable"}

\* self.first_event = next(iter(self.events.items()))[1]
first_event == sim_events[1]

\* what the browser may answer to a call
GetOutcomes == {"ok", "WebDriverException"}
ScriptOutcomes == {"ok", "JavascriptException", "WebDriverException"}
ClickOutcomes == {"ok", "WebDriverException"}

\* one call: the operation, the loop index it was made at, its argument and how it ended
Call(op, i, arg, outcome) == [op |-> op, n |-> i, arg |-> arg, outcome |-> outcome]

\* lines 99-107: the argument of sleep()
NextEventIn_NoClamp(sst, time, lt) ==
    IF sst = None THEN Num(time.n - lt.n) ELSE sst

NextEventIn(sst, time, lt) ==
    IF sst = None
        THEN IF time.n - lt.n < 0 THEN Num(NegativeDelayFallback) ELSE Num(time.n - lt.n)
        ELSE sst

ShouldNavigate_Always(ll, page) == TRUE

\* last_location != event['page']
ShouldNavigate(ll, page) == ll # page

\* execute_function is not None and callable(execute_function)
UsesCustomHandler(ef) == ef # "None" /\ ef = "callable"

\* function_that_i_want_to_execute_inside_loop: its test, whatever the lookahead
\* at events.get(n + 1) finds
HandlerNavigates(ll, page) ==
    \E lookahead \in BOOLEAN : ll # page \/ (ll # page /\ lookahead)

ScrollDispatched_NotNone(event) == DictGet(event, Str("scroll_top")) # None

\* if event.get('scroll_top')
ScrollDispatched(event) == Truthy(DictGet(event, Str("scroll_top")))

\* if event.get('mouse_position')
ClickDispatched(event) == Truthy(DictGet(event, Str("mouse_position")))

ScrollFailureSwallowed_Never(outcome) == FALSE

\* Controls.simulate_scroll: except JavascriptException
ScrollFailureSwallowed(outcome) == outcome = "JavascriptException"

\* The calls of one pass of the loop body, up to the first exception that leaves it.
\* g, s, c: what the browser answers to driver.get, execute_script and the click.
\* The keyword arguments of execute_function(...), lines 110-117.  events and
\* driver are the objects self.events and self.driver, passed by reference.
HandlerKwargs_UpdatedFirst(i, event, ll, lt) ==
    Dict([n |-> Num(i), event |-> Dict(event),
          events |-> Str("self.events"), driver |-> Str("self.driver"),
          last_location |-> event["page"], last_timestamp |-> event["time"]])

HandlerKwargs(i, event, ll, lt) ==
    Dict([n |-> Num(i), event |-> Dict(event),
          events |-> Str("self.events"), driver |-> Str("self.driver"),
          last_location |-> ll, last_timestamp |-> lt])

HandlerCalls(i, event, ef, ll, lt, g) ==
    IF UsesCustomHandler(ef) THEN
        <<Call("execute_function", i, HandlerKwargs(i, event, ll, lt), "ok")>>
        \o (IF HandlerNavigates(ll, event["page"])
               THEN <<Call("get", i, event["page"], g)>> ELSE <<>>)
    ELSE IF ShouldNavigate(ll, event["page"])
        THEN <<Call("get", i, event["page"], g)>> ELSE <<>>

Failed(cs) == cs # <<>> /\ cs[Len(cs)].outcome # "ok"

ScrollCalls(i, event, s) ==
    IF ScrollDispatched(event) THEN <<Call("scroll", i, event["scroll_top"], s)>> ELSE <<>>

ScrollRaises(cs) == Failed(cs) /\ ~ScrollFailureSwallowed(cs[Len(cs)].outcome)

ClickCalls(i, event, c) ==
    IF ClickDispatched(event) THEN <<Call("click", i, event["mouse_position"], c)>> ELSE <<>>

LoopBody(i, event, sst, ef, ll, lt, g, s, c) ==
    LET sleep == <<Call("sleep", i, NextEventIn(sst, event["time"], lt), "ok")>>
        handler == HandlerCalls(i, event, ef, ll, lt, g)
        scroll == ScrollCalls(i, event, s)
        click == ClickCalls(i, event, c)
    IN  IF Failed(handler) THEN
            [calls |-> sleep \o handler, raised |-> handler[Len(handler)].outcome]
        ELSE IF ScrollRaises(scroll) THEN
            [calls |-> sleep \o handler \o scroll, raised |-> scroll[Len(scroll)].outcome]
        ELSE IF Failed(click) THEN
            [calls |-> sleep \o handler \o scroll \o click, raised |-> click[Len(click)].outcome]
        ELSE
            [calls |-> sleep \o handler \o scroll \o click, raised |-> "none"]

\* the operations one pass asks of the browser when none of them fails
Asked(i, event, sst, ef, ll, lt) ==
    LET cs == LoopBody(i, event, sst, ef, ll, lt, "ok", "ok", "ok").calls
    IN  {cs[k].op : k \in 1..Len(cs)}

\* perform_simulation is entered: lines 95-96
PerformSimulation ==
    /\ sim_pc = "idle"
    /\ last_timestamp' = first_event["time"]
    /\ last_location' = None
    /\ sim_pc' = "running"
    /\ UNCHANGED <<schemaVars, parseVars, raised, sim_events, static_sleep_time,
                   execute_function, n, calls>>

\* one iteration of `for n, event in self.events.items()`: lines 98-136
SimulateEvent ==
    /\ sim_pc = "running"
    /\ n < MaxEvents
    /\ \E event \in IF n = 0 THEN {first_event} ELSE ParsedEvents :
       LET asked == Asked(n + 1, event, static_sleep_time, execute_function,
                          last_location, last_timestamp) IN
       \E g \in IF "get" \in asked THEN GetOutcomes ELSE {"ok"},
          s \in IF "scroll" \in asked THEN ScriptOutcomes ELSE {"ok"},
          c \in IF "click" \in asked THEN ClickOutcomes ELSE {"ok"} :
        LET i == n + 1
            r == LoopBody(i, event, static_sleep_time, execute_function,
                          last_location, last_timestamp, g, s, c)
        IN  /\ n' = i
            /\ sim_events' = IF n = 0 THEN sim_events ELSE Append(sim_events, event)
            /\ calls' = calls \o r.calls
            /\ raised' = r.raised
            /\ IF r.raised = "none"
                  THEN /\ last_timestamp' = event["time"]
                       /\ last_location' = event["page"]
                       /\ sim_pc' = "running"
                  ELSE /\ UNCHANGED <<last_timestamp, last_location>>
                       /\ sim_pc' = "raised"
    /\ UNCHANGED <<schemaVars, parseVars, static_sleep_time, execute_function>>

\* the loop is exhausted: perform_simulation returns
SimulationReturns ==
    /\ sim_pc = "running"
    /\ n = Len(sim_events)
    /\ sim_pc' = "completed"
    /\ UNCHANGED <<schemaVars, parseVars, raised, sim_events, static_sleep_time,
                   execute_function, n, last_timestamp, last_location, calls>>

\* UserSimulation(parsed_events) was constructed (next(iter(...)) raises StopIteration
\* on an empty stream) and perform_simulation is about to be called
InitReplay ==
    /\ schema \in {[k \in SlotSet |-> Str(ProviderKey[k])]}
    /\ schema_state = "constructed"
    /\ returned = None
    /\ events = <<>>
    /\ parsed_events = <<>>
    /\ valid_event = 0
    /\ parse_pc = "idle"
    /\ sim_events \in {<<>>} \cup {<<e>> : e \in ParsedEvents}
    /\ static_sleep_time \in StaticSleepTimes
    /\ execute_function \in ExecuteFunctions
    /\ n = 0
    /\ last_timestamp = None
    /\ last_location = None
    /\ calls = <<>>
    /\ IF sim_events = <<>>
          THEN sim_pc = "raised" /\ raised = "StopIteration"
          ELSE sim_pc = "idle" /\ raised = "none"

NextReplay == PerformSimulation \/ SimulateEvent \/ SimulationReturns

SpecReplay == InitReplay /\ [][NextReplay]_vars

\* perform_simulation runs in one thread and every call it makes returns or
\* raises: a pass of the loop that can be taken is taken
SpecReplayLive == InitReplay /\ [][NextReplay]_vars /\ WF_vars(NextReplay)

(***************************************************************************)
(* Claims about the replay.  Events 1..n have been taken by the loop;      *)
(* calls holds every call in the order it was made.                        *)
(***************************************************************************)
PageOf(i) == sim_events[i]["page"]

TimeOf(i) == sim_events[i]["time"]

\* the positions in calls of the calls made for event i
CallsAt(i) == {k \in 1..Len(calls) : calls[k].n = i}

\* event i made a call op
Made(i, op) == \E k \in CallsAt(i) : calls[k].op = op

\* the arguments of the driver.get calls, in order
Navigations ==
    LET gets == SelectSeq(calls, LAMBDA c : c.op = "get")
    IN  [k \in 1..Len(gets) |-> gets[k].arg]

\* pages with every page equal to its predecessor removed, prev being the
\* predecessor of the first
RECURSIVE Collapsed(_, _)
Collapsed(prev, pages) ==
    IF pages = <<>> THEN <<>>
    ELSE IF Head(pages) = prev THEN Collapsed(prev, Tail(pages))
    ELSE <<Head(pages)>> \o Collapsed(Head(pages), Tail(pages))

PagesTaken == [i \in 1..n |-> PageOf(i)]

\* C7 as stated: under the default handler the first event always navigates
\* and a later event navigates iff its page differs from the previous event's.
C7_FirstAlwaysNavigates ==
    (execute_function = "None") =>
        \A i \in 1..n :
            Made(i, "get") <=> (i = 1 \/ PageOf(i) # PageOf(i - 1))

\* C7 amended: under the default handler the first event navigates iff its page
\* is present (not None), a later event navigates iff its page differs from the
\* previous event's page, always to the event's own page; the navigations are
\* the pages taken with consecutive duplicates, and a leading None, removed.
C7_NavigateIffPageChanged ==
    (execute_function = "None") =>
        /\ \A i \in 1..n :
              /\ Made(i, "get") <=> PageOf(i) # (IF i = 1 THEN None ELSE PageOf(i - 1))
              /\ \A k \in CallsAt(i) : calls[k].op = "get" => calls[k].arg = PageOf(i)
        /\ Navigations = Collapsed(None, PagesTaken)

\* C7 witness: a completed default-handler run whose first event has no page and
\* whose second event has one: the only navigation is the second event's.
C7_Witness ==
    /\ execute_function = "None"
    /\ sim_pc = "completed"
    /\ n = 2
    /\ PageOf(1) = None
    /\ PageOf(2) = Str("P1")
    /\ Navigations = <<Str("P1")>>

\* C8: the sleep before event i is static_sleep_time when one is given, else
\* time_i - time_(i-1) (0 for the first event), a negative difference being
\* replaced by 3; it is the first call made for the event.
C8_SleepDuration ==
    \A i \in 1..n :
        LET at == CallsAt(i)
            first == CHOOSE k \in at : \A j \in at : k <= j
            delta == TimeOf(i).n - (IF i = 1 THEN TimeOf(1).n ELSE TimeOf(i - 1).n)
        IN  /\ at # {}
            /\ calls[first].op = "sleep"
            /\ \A k \in at : calls[k].op = "sleep" => k = first
            /\ calls[first].arg =
                   IF static_sleep_time # None THEN static_sleep_time
                   ELSE IF delta < 0 THEN Num(3) ELSE Num(delta)

\* C8 witness: recorded timing, the second event stamped before the first.
C8_Witness ==
    /\ static_sleep_time = None
    /\ n = 2
    /\ TimeOf(1) = Num(102) /\ TimeOf(2) = Num(100)
    /\ \E k \in CallsAt(2) : calls[k].op = "sleep" /\ calls[k].arg = Num(3)
    /\ \E k \in CallsAt(1) : calls[k].op = "sleep" /\ calls[k].arg = Num(0)

\* C9 as stated: no failure of a scroll call ends the run.
C9_AnyScrollFailureSwallowed ==
    \A k \in 1..Len(calls) :
        (calls[k].op = "scroll" /\ calls[k].outcome # "ok") =>
            ~(sim_pc = "raised" /\ k = Len(calls))

\* C9 amended: a scroll call that fails with JavascriptException does not end
\* the run: the click of the same event follows when its mouse_position is
\* truthy, and last_location / last_timestamp are updated when the pass ends;
\* any other failure of a call (get, click, or another error of the scroll) is
\* the last call of the run, which ends raised with that error.
C9_JavascriptFailureSwallowed ==
    /\ \A k \in 1..Len(calls) :
          LET c == calls[k] IN
          /\ (c.op = "scroll" /\ c.outcome = "JavascriptException") =>
                /\ Truthy(sim_events[c.n]["mouse_position"]) =>
                      (k < Len(calls) /\ calls[k + 1].op = "click" /\ calls[k + 1].n = c.n)
                /\ sim_pc = "raised" => k < Len(calls)
                /\ (c.n = n /\ sim_pc # "raised") =>
                      (last_location = PageOf(n) /\ last_timestamp = TimeOf(n))
          /\ c.outcome \notin {"ok", "JavascriptException"} =>
                (k = Len(calls) /\ sim_pc = "raised" /\ raised = c.outcome)
          /\ c.outcome = "JavascriptException" => c.op = "scroll"
    /\ (sim_pc = "raised" /\ n >= 1) =>
          (calls # <<>> /\ calls[Len(calls)].outcome \notin {"ok", "JavascriptException"})

\* C9 witness: the scroll of event 1 failed with JavascriptException, its click
\* was made, and event 2 was processed after it.
C9_Witness ==
    /\ n = 2
    /\ sim_pc = "completed"
    /\ \E k \in CallsAt(1) :
          /\ calls[k].op = "scroll" /\ calls[k].outcome = "JavascriptException"
          /\ k < Len(calls)
          /\ calls[k + 1].op = "click" /\ calls[k + 1].n = 1
    /\ CallsAt(2) # {}
    /\ last_location = PageOf(2)

Rank(op) ==
    CASE op = "sleep" -> 0
      [] op = "execute_function" -> 1
      [] op = "get" -> 2
      [] op = "scroll" -> 3
      [] op = "click" -> 4

\* C10: for every event, with or without a custom handler: the calls come in
\* the order sleep, handler / navigation, scroll, click, each at most once; a
\* scroll is made only for a truthy scroll_top, with it as argument, and is made
\* for every truthy scroll_top unless the handler / navigation failed; a click
\* is made only for a truthy mouse_position, with it as argument, and is made
\* for every truthy mouse_position unless an earlier call ended the run; the
\* handler is called iff one was supplied.
C10_ScrollThenClickIffTruthy ==
    \A i \in 1..n :
        LET ev == sim_events[i]
            at == CallsAt(i)
            failedBefore(r) == \E k \in at :
                /\ Rank(calls[k].op) < r
                /\ calls[k].outcome \notin {"ok", "JavascriptException"}
        IN  /\ \A j, k \in at : j < k => Rank(calls[j].op) < Rank(calls[k].op)
            /\ \A k \in at :
                  /\ calls[k].op = "scroll" =>
                        (Truthy(ev["scroll_top"]) /\ calls[k].arg = ev["scroll_top"])
                  /\ calls[k].op = "click" =>
                        (Truthy(ev["mouse_position"]) /\ calls[k].arg = ev["mouse_position"])
            /\ (Truthy(ev["scroll_top"]) /\ ~failedBefore(3)) =>
                  \E k \in at : calls[k].op = "scroll"
            /\ (Truthy(ev["mouse_position"]) /\ ~failedBefore(4)) =>
                  \E k \in at : calls[k].op = "click"
            /\ (\E k \in at : calls[k].op = "execute_function") <=> execute_function = "callable"

\* C10 witness: a custom-handler run whose first event has a truthy scroll_top
\* and mouse_position and made handler, navigation, scroll, click in that order,
\* and whose second event has scroll_top 0 and no mouse_position and made neither.
C10_Witness ==
    /\ execute_function = "callable"
    /\ n = 2
    /\ sim_pc = "completed"
    /\ Len(calls) >= 5
    /\ [k \in 1..5 |-> calls[k].op] = <<"sleep", "execute_function", "get", "scroll", "click">>
    /\ \A k \in 1..5 : calls[k].n = 1
    /\ sim_events[2]["scroll_top"] = Num(0)
    /\ sim_events[2]["mouse_position"] = None
    /\ ~Made(2, "scroll") /\ ~Made(2, "click")

\* C11: when a custom handler is supplied it is called exactly once for every
\* event taken, in index order, with n = the index, event = the event, events =
\* the whole stream, driver = the navigator, last_location = the page of event
\* i-1 (None for the first event) and last_timestamp = the time of event i-1
\* (the first event's own time for the first event); last_location and
\* last_timestamp hold the last event's page and time once its pass is over,
\* and still those of the event before when a call of the pass ended the run;
\* without a custom handler no handler call is made.
C11_HandlerOncePerEventWithContext ==
    /\ execute_function = "callable" =>
          /\ \A i \in 1..n :
                LET hs == {k \in CallsAt(i) : calls[k].op = "execute_function"} IN
                /\ Cardinality(hs) = 1
                /\ \A k \in hs :
                      calls[k].arg =
                          Dict([n |-> Num(i), event |-> Dict(sim_events[i]),
                                events |-> Str("self.events"),
                                driver |-> Str("self.driver"),
                                last_location |-> IF i = 1 THEN None ELSE PageOf(i - 1),
                                last_timestamp |-> IF i = 1 THEN TimeOf(1) ELSE TimeOf(i - 1)])
          /\ \A j, k \in 1..Len(calls) : j < k => calls[j].n <= calls[k].n
          /\ \A k \in 1..Len(calls) : calls[k].n \in 1..n
    /\ execute_function = "None" =>
          \A k \in 1..Len(calls) : calls[k].op # "execute_function"
    /\ (n >= 1 /\ sim_pc \in {"running", "completed"}) =>
          (last_location = PageOf(n) /\ last_timestamp = TimeOf(n))
    /\ (n >= 1 /\ sim_pc = "raised") =>
          /\ last_location = (IF n = 1 THEN None ELSE PageOf(n - 1))
          /\ last_timestamp = (IF n = 1 THEN TimeOf(1) ELSE TimeOf(n - 1))

\* C11 witness: a completed custom-handler run of two events with different
\* pages and times: the second handler call got the first event's page and time.
C11_Witness ==
    /\ execute_function = "callable"
    /\ sim_pc = "completed"
    /\ n = 2
    /\ PageOf(1) = Str("P1") /\ PageOf(2) = Str("P2")
    /\ TimeOf(1) = Num(100) /\ TimeOf(2) = Num(102)
    /\ \E j \in CallsAt(1), k \in CallsAt(2) :
          /\ j < k
          /\ calls[j].op = "execute_function" /\ calls[k].op = "execute_function"
          /\ calls[j].arg.d["last_location"] = None
          /\ calls[j].arg.d["last_timestamp"] = Num(100)
          /\ calls[k].arg.d["last_location"] = Str("P1")
          /\ calls[k].arg.d["last_timestamp"] = Num(100)
          /\ calls[k].arg.d["n"] = Num(2)
    /\ last_location = Str("P2") /\ last_timestamp = Num(102)

\* the run was ended by a failed driver.get or click
NavigatorError ==
    /\ sim_pc = "raised"
    /\ calls # <<>>
    /\ calls[Len(calls)].op \in {"get", "click"}
    /\ calls[Len(calls)].outcome # "ok"

\* C12: a replay session over any stream, the empty one included, is only ever
\* idle, running or completed unless a driver.get / click error ended it, and
\* steps only idle -> running -> completed; the events are taken once each in
\* index order 1..n, all calls of event i coming before the sleep of event i+1;
\* unless a driver.get / click error occurs the session eventually is completed,
\* and over an empty stream it is completed without any call made.
C12_SinglePassToCompleted ==
    /\ [](sim_pc \in {"idle", "running", "completed"} \/ NavigatorError)
    /\ [][\/ sim_pc = "idle" /\ sim_pc' = "running"
          \/ sim_pc = "running" /\ sim_pc' \in {"running", "completed"} /\ n' \in {n, n + 1}
          \/ sim_pc = "running" /\ NavigatorError']_vars
    /\ [](/\ \A j, k \in 1..Len(calls) : j < k => calls[j].n <= calls[k].n
          /\ \A i \in 1..n : Cardinality({k \in CallsAt(i) : calls[k].op = "sleep"}) = 1)
    /\ <>(sim_pc = "completed" \/ NavigatorError)
    /\ (sim_events = <<>>) ~> (sim_pc = "completed" /\ calls = <<>>)

InitSchema ==
    /\ schema \in SchemaArgs
    /\ schema_state = "args"
    /\ returned = None
    /\ raised = "none"
    /\ events = <<>>
    /\ parsed_events = <<>>
    /\ valid_event = 0
    /\ parse_pc = "idle"
    /\ SimOff

NextSchema == SchemaInit \/ ReturnSchema

SpecSchema == InitSchema /\ [][NextSchema]_vars

====
